---- MODULE Spec2Model ----
(***************************************************************************)
(* Model of the lexical function scanner of                                *)
(* src/services/code_extraction_service.py (class FunctionExtractor).      *)
(*                                                                         *)
(* A text is a sequence of one-character strings; a file is such a text;   *)
(* a tree is a sequence of files in traversal order.  Indices are 1-based  *)
(* here (Python index + 1); reported line numbers are 1-based as in the    *)
(* code.  Every scanner is the code's loop, written as a step on the       *)
(* loop's local variables and iterated until the loop condition fails.     *)
(* The trace reader _process_trace_json of src/services/uftrace_service.py *)
(* is modelled on the JSON value its file holds.                           *)
(***************************************************************************)
EXTENDS Integers, Sequences, FiniteSets, TLC

VARIABLES
    content,          \* the text handed to a scanner / the content of the file
    literal,          \* a string literal to be inserted into content
    at,               \* number of characters of content before the literal
    start_idx,        \* 1-based index of the start line given to the Brace Matcher
    files,            \* the tree: sequence of file contents, in traversal order
    line_number,      \* the line_number argument (None or an integer)
    remove_comments,  \* the remove_comments argument
    file_name,        \* the file_name argument (None or a name)
    self,             \* the extractor: src_dir and c_extensions
    dirs,             \* the directories under src_dir with their files, top-down
    calls,            \* number of calls made on the extractor so far
    input_file,       \* the trace file at the path given to _process_trace_json
    pc,               \* which operation has been applied ("init" before any)
    result            \* what the operation returned

vars == <<content, literal, at, start_idx, files, line_number, remove_comments,
          file_name, self, dirs, calls, input_file, pc, result>>

\* what an operation applied once leaves alone
args == <<content, literal, at, start_idx, files, line_number, remove_comments,
          file_name, self, dirs, calls, input_file>>

----------------------------------------------------------------------------
(* Characters *)

DQ == "\""
SQ == "'"
BS == "\\"
NL == "\n"
None == "None"

\* the absent text (a returned None): no text, since a text holds characters only
NoText == <<"None">>

\* the absent line_number argument (None)
NoLine == -1

\* line 16: file_name: Optional[str] = None
NoFileName == <<"None">>

\* line 14: the recognized extensions
CExtensions ==
    { <<".", "c">>, <<".", "c", "p", "p">>, <<".", "c", "c">>,
      <<".", "c", "x", "x">>, <<".", "h">>, <<".", "h", "p", "p">>,
      <<".", "h", "x", "x">> }

\* lines 9-14: the extractor after construction on an existing directory
SrcDir == <<".">>
Extractor == [src_dir |-> SrcDir, c_extensions |-> CExtensions]

\* str.isspace() for the characters used here
Whitespace == {" ", NL, "\t"}

\* the \w class of re, for the characters used here
WordChars ==
    {"a", "b", "c", "d", "e", "f", "g", "h", "i", "j", "k", "l", "m", "n", "o",
     "p", "q", "r", "s", "t", "u", "v", "w", "x", "y", "z", "_", "0", "1", "2",
     "3", "4", "5", "6", "7", "8", "9"}

----------------------------------------------------------------------------
(* _remove_comments: lines 90-149 *)

\* the state of the loop at line 93-96
RemoveCommentsInit ==
    [i |-> 1, in_string |-> FALSE, in_char |-> FALSE, string_char |-> None,
     result |-> <<>>]

\* line 128-129: first index j >= i with content[j] = '\n', or Len+1
RECURSIVE SkipLineComment(_, _)
SkipLineComment(text, i) ==
    IF i <= Len(text) /\ text[i] # NL THEN SkipLineComment(text, i + 1) ELSE i

\* lines 135-141: the inner loop of a block comment, entered with i past "/*"
RECURSIVE SkipBlockComment(_, _, _)
SkipBlockComment(text, i, res) ==
    IF i < Len(text)
    THEN IF text[i] = "*" /\ text[i + 1] = "/"
         THEN [i |-> i + 2, result |-> res]
         ELSE SkipBlockComment(text, i + 1,
                               IF text[i] = NL THEN Append(res, NL) ELSE res)
    ELSE [i |-> i, result |-> res]

\* line 110: a quote met outside any literal opens one
RemoveCommentsOpensStringNoQuotes(st, char) == FALSE
RemoveCommentsOpensString(st, char) ==
    char \in {DQ, SQ} /\ ~st.in_char /\ ~st.in_string

\* lines 114, 240: a literal is closed by the quote that opened it
ClosesStringAnyQuote(st, char) == char \in {DQ, SQ} /\ st.in_string
ClosesString(st, char) == char = st.string_char /\ st.in_string

\* lines 102-104: the backslash and the character after it are both copied
EscapePairSecondOnly(text, i) == <<text[i + 1]>>
EscapePair(text, i) == <<text[i], text[i + 1]>>

\* one iteration of the while loop of lines 98-147
RemoveCommentsStep(text, st) ==
    LET i    == st.i
        char == text[i]
        put  == [st EXCEPT !.result = Append(@, char), !.i = i + 1]
    IN  IF (st.in_string \/ st.in_char) /\ char = BS
        THEN IF i + 1 <= Len(text)
             THEN [st EXCEPT !.result = @ \o EscapePair(text, i), !.i = i + 2]
             ELSE put
        ELSE IF RemoveCommentsOpensString(st, char)
        THEN [put EXCEPT !.in_string = TRUE, !.string_char = char]
        ELSE IF ClosesString(st, char)
        THEN [put EXCEPT !.in_string = FALSE, !.string_char = None]
        ELSE IF char = SQ /\ ~st.in_string /\ ~st.in_char
        THEN [put EXCEPT !.in_char = TRUE]
        ELSE IF char = SQ /\ st.in_char
        THEN [put EXCEPT !.in_char = FALSE]
        ELSE IF ~st.in_string /\ ~st.in_char
        THEN IF char = "/" /\ i + 1 <= Len(text)
             THEN IF text[i + 1] = "/"
                  THEN LET j == SkipLineComment(text, i)
                       IN  [st EXCEPT !.i = j,
                                      !.result = IF j <= Len(text)
                                                 THEN Append(@, NL) ELSE @]
                  ELSE IF text[i + 1] = "*"
                  THEN LET b == SkipBlockComment(text, i + 2, st.result)
                       IN  [st EXCEPT !.i = b.i, !.result = b.result]
                  ELSE put
             ELSE put
        ELSE put

RECURSIVE RemoveCommentsLoop(_, _)
RemoveCommentsLoop(text, st) ==
    IF st.i <= Len(text)
    THEN RemoveCommentsLoop(text, RemoveCommentsStep(text, st))
    ELSE st.result

RemoveComments(text) == RemoveCommentsLoop(text, RemoveCommentsInit)

----------------------------------------------------------------------------
(* _count_braces_in_text: lines 222-263 *)

\* the state of the loop at lines 224-228
CountBracesInit ==
    [i |-> 1, in_string |-> FALSE, in_char |-> FALSE, string_char |-> None,
     count |-> 0, broke |-> FALSE]

\* line 234: a backslash inside a literal skips itself and the next character
CountBracesEscapeSkipOne(i) == i + 1
CountBracesEscapeSkip(i) == i + 2

\* one iteration of the while loop of lines 230-261; broke records the break of
\* line 251
CountBracesStep(text, st) ==
    LET i    == st.i
        char == text[i]
        next == [st EXCEPT !.i = i + 1]
    IN  IF (st.in_string \/ st.in_char) /\ char = BS
        THEN [st EXCEPT !.i = CountBracesEscapeSkip(i)]
        ELSE IF char \in {DQ, SQ} /\ ~st.in_char /\ ~st.in_string
        THEN [next EXCEPT !.in_string = TRUE, !.string_char = char]
        ELSE IF ClosesString(st, char)
        THEN [next EXCEPT !.in_string = FALSE, !.string_char = None]
        ELSE IF char = SQ /\ ~st.in_string /\ ~st.in_char
        THEN [next EXCEPT !.in_char = TRUE]
        ELSE IF char = SQ /\ st.in_char
        THEN [next EXCEPT !.in_char = FALSE]
        ELSE IF ~st.in_string /\ ~st.in_char
        THEN IF char = "/" /\ i + 1 <= Len(text) /\ text[i + 1] = "/"
             THEN [st EXCEPT !.broke = TRUE]
             ELSE IF char = "/" /\ i + 1 <= Len(text) /\ text[i + 1] = "*"
             THEN [st EXCEPT !.i = i + 2]
             ELSE IF char = "{"
             THEN [next EXCEPT !.count = @ + 1]
             ELSE IF char = "}"
             THEN [next EXCEPT !.count = @ - 1]
             ELSE next
        ELSE next

RECURSIVE CountBracesLoop(_, _)
CountBracesLoop(text, st) ==
    IF st.i <= Len(text) /\ ~st.broke
    THEN CountBracesLoop(text, CountBracesStep(text, st))
    ELSE st.count

CountBracesInText(text) == CountBracesLoop(text, CountBracesInit)

\* the loop state when the scanner stands at index p of text; when the loop
\* never stands at p, the state in which it has passed p or has left the loop
RECURSIVE CountBracesStateAt(_, _, _)
CountBracesStateAt(text, st, p) ==
    IF st.i < p /\ st.i <= Len(text) /\ ~st.broke
    THEN CountBracesStateAt(text, CountBracesStep(text, st), p)
    ELSE st

----------------------------------------------------------------------------
(* Text helpers: the str methods the scanner uses *)

\* str.strip()
RECURSIVE LStrip(_)
LStrip(s) == IF s # <<>> /\ Head(s) \in Whitespace THEN LStrip(Tail(s)) ELSE s

RECURSIVE RStrip(_)
RStrip(s) ==
    IF s # <<>> /\ s[Len(s)] \in Whitespace
    THEN RStrip(SubSeq(s, 1, Len(s) - 1)) ELSE s

Strip(s) == RStrip(LStrip(s))

\* sub in s
StartsWithAt(s, p, sub) ==
    /\ p + Len(sub) - 1 <= Len(s)
    /\ \A k \in 1..Len(sub) : s[p + k - 1] = sub[k]

Contains(s, sub) == \E p \in 1..(Len(s) + 1) : StartsWithAt(s, p, sub)

\* s.endswith(';')
EndsWithSemicolon(s) == s # <<>> /\ s[Len(s)] = ";"

\* content.split('\n'): the pieces between the newlines, k+1 pieces for k newlines
RECURSIVE SplitFrom(_, _, _)
SplitFrom(text, i, cur) ==
    IF i > Len(text) THEN <<cur>>
    ELSE IF text[i] = NL THEN <<cur>> \o SplitFrom(text, i + 1, <<>>)
    ELSE SplitFrom(text, i + 1, Append(cur, text[i]))

Split(text) == SplitFrom(text, 1, <<>>)

\* file.readlines(): every line with its newline, no empty piece after the last
RECURSIVE ReadLinesFrom(_, _, _)
ReadLinesFrom(text, i, cur) ==
    IF i > Len(text) THEN (IF cur = <<>> THEN <<>> ELSE <<cur>>)
    ELSE IF text[i] = NL
    THEN <<Append(cur, NL)>> \o ReadLinesFrom(text, i + 1, <<>>)
    ELSE ReadLinesFrom(text, i + 1, Append(cur, text[i]))

ReadLines(text) == ReadLinesFrom(text, 1, <<>>)

\* '\n'.join(lines)
RECURSIVE Join(_)
Join(ls) ==
    IF ls = <<>> THEN <<>>
    ELSE IF Len(ls) = 1 THEN ls[1]
    ELSE ls[1] \o <<NL>> \o Join(Tail(ls))

----------------------------------------------------------------------------
(* _is_function_declaration and _is_inside_string_or_macro: lines 151-183 *)

\* first index at or after p whose character is not whitespace (\s*)
RECURSIVE SkipSpace(_, _)
SkipSpace(s, p) ==
    IF p <= Len(s) /\ s[p] \in Whitespace THEN SkipSpace(s, p + 1) ELSE p

\* line 159-160: re.search(r'\b<name>\s*\(', s)
SearchName(s, function_name) ==
    \E p \in 1..Len(s) :
        /\ StartsWithAt(s, p, function_name)
        /\ (p = 1 \/ s[p - 1] \notin WordChars)
        /\ LET q == SkipSpace(s, p + Len(function_name))
           IN  q <= Len(s) /\ s[q] = "("

\* lines 175-183
IsInsideStringOrMacro(line, function_name) ==
    \/ Contains(line, <<DQ>> \o function_name)
    \/ Contains(line, <<SQ>> \o function_name)
    \/ (Strip(line) # <<>> /\ Head(Strip(line)) = "#")

\* line 164: the line is joined with the next one only when it holds no '('
LookaheadNever(current_line) == FALSE
LookaheadAllowed(current_line) == ~Contains(current_line, <<"(">>)

\* lines 151-173; start_idx is 1-based
IsFunctionDeclaration(lines, idx, function_name) ==
    LET current_line == IF idx <= Len(lines) THEN Strip(lines[idx]) ELSE <<>>
    IN  IF current_line = <<>> \/ EndsWithSemicolon(current_line)
        THEN FALSE
        ELSE \/ /\ SearchName(current_line, function_name)
                /\ ~IsInsideStringOrMacro(current_line, function_name)
             \/ /\ idx + 1 <= Len(lines)
                /\ LookaheadAllowed(current_line)
                /\ LET combined == current_line \o <<" ">> \o Strip(lines[idx + 1])
                   IN  /\ SearchName(combined, function_name)
                       /\ ~IsInsideStringOrMacro(combined, function_name)
                       /\ ~EndsWithSemicolon(current_line)

----------------------------------------------------------------------------
(* _extract_complete_function and _count_braces_in_lines: lines 185-220 *)

\* line 195: '{' in line
HasBrace(line) == Contains(line, <<"{">>)

\* lines 190-198: the line at which the first loop stops with brace_found, the
\* first line at or after idx that holds a '{'; 0 when the loop reaches the end
\* of the file without one
RECURSIVE SeedLine(_, _)
SeedLine(lines, i) ==
    IF i > Len(lines) THEN 0
    ELSE IF HasBrace(lines[i]) THEN i
    ELSE SeedLine(lines, i + 1)

\* lines 218-220
RECURSIVE CountBracesInLines(_)
CountBracesInLines(ls) ==
    IF ls = <<>> THEN 0
    ELSE CountBracesInText(Head(ls)) + CountBracesInLines(Tail(ls))

\* lines 205-214: the last line appended by the second loop, entered at line i
\* with brace_count; last is the last line appended so far
LastLineAtSeed(lines, i, brace_count, last) == last
RECURSIVE LastLine(_, _, _, _)
LastLine(lines, i, brace_count, last) ==
    IF i <= Len(lines) /\ brace_count > 0
    THEN LET c == brace_count + CountBracesInText(lines[i])
         IN  IF c = 0 THEN i ELSE LastLine(lines, i + 1, c, i)
    ELSE last

\* the index of the last line of function_lines
EndLine(lines, idx) ==
    LET seed == SeedLine(lines, idx)
    IN  IF seed = 0 THEN Len(lines)
        ELSE LastLine(lines, seed + 1,
                      CountBracesInLines(SubSeq(lines, idx, seed)), seed)

\* lines 185-216
ExtractCompleteFunction(lines, idx, function_name) ==
    Join(SubSeq(lines, idx, EndLine(lines, idx)))

----------------------------------------------------------------------------
(* _parse_function: lines 67-88 *)

\* lines 75-78: the accepted lines, in increasing order
Matches(lines, function_name) ==
    SelectSeq([i \in 1..Len(lines) |-> i],
              LAMBDA i : IsFunctionDeclaration(lines, i, function_name))

Abs(n) == IF n < 0 THEN -n ELSE n

\* line 85: min(matches, key=...) is the first element with the least key
BestMatchLater(matches, line) ==
    LET key(x) == Abs(x - line)
        least  == CHOOSE k \in 1..Len(matches) :
                     /\ \A j \in 1..Len(matches) : key(matches[k]) <= key(matches[j])
                     /\ \A j \in (k + 1)..Len(matches) : key(matches[j]) > key(matches[k])
    IN  matches[least]

BestMatch(matches, line) ==
    LET key(x) == Abs(x - line)
        least  == CHOOSE k \in 1..Len(matches) :
                     /\ \A j \in 1..Len(matches) : key(matches[k]) <= key(matches[j])
                     /\ \A j \in 1..(k - 1) : key(matches[j]) > key(matches[k])
    IN  matches[least]

\* the line _parse_function starts the extraction at; 0 when it returns None
StartLine(lines, function_name, line) ==
    LET matches == Matches(lines, function_name)
    IN  IF matches = <<>> THEN 0
        ELSE IF line # NoLine THEN BestMatch(matches, line)
        ELSE matches[1]

ParseFunction(text, function_name, line, strip) ==
    LET lines == Split(IF strip THEN RemoveComments(text) ELSE text)
        start == StartLine(lines, function_name, line)
    IN  IF start = 0 THEN NoText
        ELSE ExtractCompleteFunction(lines, start, function_name)

----------------------------------------------------------------------------
(* The tree-wide operations: lines 33-57, 265-277, 343-358.  A tree is the   *)
(* list returned by _get_all_source_files, in its order; a file is named by  *)
(* its place in that list.                                                   *)

\* line 271: the half-width of the window of _verify_line_number
WindowRadius == 3

Max(a, b) == IF a > b THEN a ELSE b
Min(a, b) == IF a < b THEN a ELSE b

\* lines 265-277: range(max(0, line - 3), min(len(lines), line + 3)) holds the
\* 0-based indices, that is the 1-based lines from its start + 1 to its end
VerifyLineNumber(text, function_name, line) ==
    LET lines == Split(text)
    IN  \E i \in (Max(0, line - WindowRadius) + 1)..Min(Len(lines), line + WindowRadius) :
            IsFunctionDeclaration(lines, i, function_name)

\* lines 35-42: the files whose result is truthy, in traversal order
DirectoryMatches(tree, function_name, line, strip) ==
    SelectSeq([k \in 1..Len(tree) |-> k],
              LAMBDA k : LET r == ParseFunction(tree[k], function_name, line, strip)
                         IN  r # NoText /\ r # <<>>)

\* lines 44-57: the file whose text is returned; 0 when None is returned
SelectedFileLast(tree, function_name, line, strip) ==
    LET matches == DirectoryMatches(tree, function_name, line, strip)
    IN  IF matches = <<>> THEN 0 ELSE matches[Len(matches)]
SelectedFile(tree, function_name, line, strip) ==
    LET matches  == DirectoryMatches(tree, function_name, line, strip)
        verified == {j \in 1..Len(matches) :
                        VerifyLineNumber(tree[matches[j]], function_name, line)}
    IN  IF matches = <<>> THEN 0
        ELSE IF Len(matches) = 1 THEN matches[1]
        ELSE IF line # NoLine /\ line # 0 /\ verified # {}
        THEN matches[CHOOSE j \in verified : \A k \in verified : j <= k]
        ELSE matches[1]

\* lines 33-57
ExtractFromDirectory(tree, function_name, line, strip) ==
    LET k == SelectedFile(tree, function_name, line, strip)
    IN  IF k = 0 THEN NoText
        ELSE ParseFunction(tree[k], function_name, line, strip)

\* lines 349-354: the pairs of one file
LocationsInFile(k, text, function_name) ==
    LET lines == ReadLines(text)
        hits  == SelectSeq([i \in 1..Len(lines) |-> i],
                           LAMBDA i : IsFunctionDeclaration(lines, i, function_name))
    IN  [j \in 1..Len(hits) |-> <<k, hits[j]>>]

\* lines 343-358
RECURSIVE FindFunctionLocationsFrom(_, _, _)
FindFunctionLocationsFrom(tree, k, function_name) ==
    IF k > Len(tree) THEN <<>>
    ELSE LocationsInFile(k, tree[k], function_name)
         \o FindFunctionLocationsFrom(tree, k + 1, function_name)

FindFunctionLocations(tree, function_name) ==
    FindFunctionLocationsFrom(tree, 1, function_name)

----------------------------------------------------------------------------
(* _list_functions_in_file: lines 310-341.  The pattern of lines 318-328 is  *)
(* matched as re does: leftmost start, greedy with backtracking.             *)

\* first index at or after p whose character is not a word character (\w*)
RECURSIVE SkipWord(_, _)
SkipWord(s, p) ==
    IF p <= Len(s) /\ s[p] \in WordChars THEN SkipWord(s, p + 1) ELSE p

\* first index at or after p whose character is not '*'
RECURSIVE SkipStars(_, _)
SkipStars(s, p) ==
    IF p <= Len(s) /\ s[p] = "*" THEN SkipStars(s, p + 1) ELSE p

\* first index at or after p whose character is '{' or ';', or Len+1 ([^{;]*)
RECURSIVE SkipParams(_, _)
SkipParams(s, p) ==
    IF p <= Len(s) /\ s[p] \notin {"{", ";"} THEN SkipParams(s, p + 1) ELSE p

\* last index before t whose character is not whitespace, or 0
RECURSIVE LastNonSpace(_, _)
LastNonSpace(s, t) ==
    IF t <= 1 THEN 0
    ELSE IF s[t - 1] \in Whitespace THEN LastNonSpace(s, t - 1) ELSE t - 1

\* line 321: static, extern, inline
StorageSpecifiers ==
    { <<"s", "t", "a", "t", "i", "c">>, <<"e", "x", "t", "e", "r", "n">>,
      <<"i", "n", "l", "i", "n", "e">> }

NoMatch == [ok |-> FALSE, name |-> <<>>, params |-> <<>>, end |-> 0]

\* line 327: the lookahead (?=\{) at index t
FollowedByBraceOrSemicolon(s, t) == t <= Len(s) /\ s[t] \in {"{", ";"}
FollowedByBrace(s, t) == t <= Len(s) /\ s[t] = "{"

\* lines 322-327 from index c: the return type, the name, the parameter list,
\* the ')' and the lookahead
MatchSignature(s, c) ==
    LET d    == SkipWord(s, c)             \* \w+
        ws1  == SkipSpace(s, d)            \* \s* or \s+
        st   == SkipStars(s, ws1)          \* \*+
        n    == SkipSpace(s, st)           \* \s*
        e    == SkipWord(s, n)             \* (\w+)
        o    == SkipSpace(s, e)            \* \s*  then \(
        t    == SkipParams(s, o + 1)       \* ([^{;]*)
        q    == LastNonSpace(s, t)         \* \) \s*
    IN  IF /\ d > c
           /\ (st > ws1 \/ (ws1 > d /\ st = ws1))
           /\ e > n
           /\ o <= Len(s) /\ s[o] = "("
           /\ FollowedByBrace(s, t)
           /\ q > o /\ s[q] = ")"
        THEN [ok |-> TRUE, name |-> SubSeq(s, n, e - 1),
              params |-> SubSeq(s, o + 1, q - 1), end |-> t]
        ELSE NoMatch

\* line 321 onwards from index c: as many storage specifiers as possible, fewer
\* when the rest does not match
RECURSIVE MatchSpecifiers(_, _)
MatchSpecifiers(s, c) ==
    LET spec == {w \in StorageSpecifiers :
                    /\ StartsWithAt(s, c, w)
                    /\ c + Len(w) <= Len(s) /\ s[c + Len(w)] \in Whitespace}
        more == IF spec # {}
                THEN MatchSpecifiers(s, SkipSpace(s, c + Len(CHOOSE w \in spec : TRUE)))
                ELSE NoMatch
    IN  IF more.ok THEN more ELSE MatchSignature(s, c)

\* the match of the pattern that starts at index p: (?:^|\n) \s* and the rest
MatchAt(s, p) ==
    IF p = 1 \/ (p <= Len(s) + 1 /\ s[p - 1] = NL)
    THEN MatchSpecifiers(s, SkipSpace(s, p))
    ELSE IF p <= Len(s) /\ s[p] = NL
    THEN MatchSpecifiers(s, SkipSpace(s, p + 1))
    ELSE NoMatch

\* line 338
Signature(name, params) ==
    IF Strip(params) # <<>>
    THEN Strip(name) \o <<"(">> \o Strip(params) \o <<")">>
    ELSE Strip(name) \o <<"(", ")">>

\* lines 330-339: re.finditer, the next search starting where a match ends
RECURSIVE FindIter(_, _)
FindIter(s, p) ==
    IF p > Len(s) THEN <<>>
    ELSE LET m == MatchAt(s, p)
         IN  IF m.ok
             THEN <<<<Strip(m.name), Signature(m.name, m.params)>>>>
                  \o FindIter(s, m.end)
             ELSE FindIter(s, p + 1)

\* lines 310-341
ListFunctionsInFile(text, strip) ==
    FindIter(IF strip THEN RemoveComments(text) ELSE text, 1)

----------------------------------------------------------------------------
(* The caller operations on the source root: lines 16-31, 33-65, 279-308,   *)
(* 343-358.  The root is the sequence of the directories under src_dir in   *)
(* the order os.walk and rglob visit them, src_dir itself first; a           *)
(* directory is the sequence of its files; a file has a name, a text and a  *)
(* flag telling whether open() succeeds on it.  A path is a directory index *)
(* with a file name.  An operation returns a value or raises an exception.  *)

Return(value) == [raised |-> None, value |-> value]
Raise(exception) == [raised |-> exception]

\* lines 41, 305, 355: except (UnicodeDecodeError, PermissionError)
SkippedErrors == {"UnicodeDecodeError", "PermissionError"}

\* lines 62, 267, 312, 349: open(filepath, 'r') and read; the file is left as
\* it is
OpenReadAnyFile(f) == Return(f.text)
OpenRead(f) ==
    IF f.readable THEN Return(f.text) ELSE Raise("PermissionError")

\* line 19, 291: if file_name
IsGiven(name) == name # NoFileName /\ name # <<>>

HoldsFile(directory, name) ==
    \E j \in 1..Len(directory) : directory[j].name = name

FileNamed(directory, name) ==
    directory[CHOOSE j \in 1..Len(directory) : directory[j].name = name]

\* lines 20-24: the first directory of the walk that holds file_name, from
\* directory d on; 0 when the walk ends without one
FoundDirLast(tr, name, d) ==
    LET hits == {k \in d..Len(tr) : HoldsFile(tr[k], name)}
    IN  IF hits = {} THEN 0 ELSE CHOOSE k \in hits : \A j \in hits : j <= k
RECURSIVE FoundDir(_, _, _)
FoundDir(tr, name, d) ==
    IF d > Len(tr) THEN 0
    ELSE IF HoldsFile(tr[d], name) THEN d
    ELSE FoundDir(tr, name, d + 1)

\* lines 59-65: _extract_from_file
ExtractFromFile(f, function_name, line, strip) ==
    LET c == OpenRead(f)
    IN  IF c.raised # None THEN c
        ELSE Return(ParseFunction(c.value, function_name, line, strip))

\* Path.suffix: the name from its last '.' on, when that is not its first
\* character; str.lower() on it
RECURSIVE LastDot(_, _)
LastDot(name, p) ==
    IF p = 0 THEN 0 ELSE IF name[p] = "." THEN p ELSE LastDot(name, p - 1)

Suffix(name) ==
    LET p == LastDot(name, Len(name))
    IN  IF p > 1 THEN SubSeq(name, p, Len(name)) ELSE <<>>

UpperCase ==
    <<"A", "B", "C", "D", "E", "F", "G", "H", "I", "J", "K", "L", "M", "N", "O",
      "P", "Q", "R", "S", "T", "U", "V", "W", "X", "Y", "Z">>
LowerCase ==
    <<"a", "b", "c", "d", "e", "f", "g", "h", "i", "j", "k", "l", "m", "n", "o",
      "p", "q", "r", "s", "t", "u", "v", "w", "x", "y", "z">>

Lower(s) ==
    [p \in 1..Len(s) |->
        IF \E k \in 1..Len(UpperCase) : UpperCase[k] = s[p]
        THEN LowerCase[CHOOSE k \in 1..Len(UpperCase) : UpperCase[k] = s[p]]
        ELSE s[p]]

\* lines 279-285: the files with a recognized extension, each with its path,
\* from directory d on
RECURSIVE GetAllSourceFilesFrom(_, _, _)
GetAllSourceFilesFrom(tr, slf, d) ==
    IF d > Len(tr) THEN <<>>
    ELSE LET here == SelectSeq(tr[d], LAMBDA f : Lower(Suffix(f.name)) \in slf.c_extensions)
         IN  [j \in 1..Len(here) |-> [path |-> <<d, here[j].name>>, file |-> here[j]]]
             \o GetAllSourceFilesFrom(tr, slf, d + 1)

GetAllSourceFiles(tr, slf) == GetAllSourceFilesFrom(tr, slf, 1)

\* lines 36-42: the files on which _extract_from_file does not raise one of
\* the skipped errors; the others are passed over by continue
ScannedFiles(tr, slf) ==
    SelectSeq(GetAllSourceFiles(tr, slf),
              LAMBDA e : OpenRead(e.file).raised \notin SkippedErrors)

\* lines 33-57 on the files of the root
ExtractFromRoot(tr, slf, function_name, line, strip) ==
    LET scanned == ScannedFiles(tr, slf)
    IN  Return(ExtractFromDirectory([k \in 1..Len(scanned) |-> scanned[k].file.text],
                                    function_name, line, strip))

\* lines 16-31
ExtractFunction(tr, slf, function_name, name, line, strip) ==
    IF IsGiven(name)
    THEN LET d == FoundDir(tr, name, 1)
         IN  IF d = 0 THEN Raise("FileNotFoundError")
             ELSE ExtractFromFile(FileNamed(tr[d], name), function_name, line, strip)
    ELSE ExtractFromRoot(tr, slf, function_name, line, strip)

\* lines 295-297, 302-304: the entries of one file, with its path
EntriesOfFile(path, text, strip) ==
    LET fs == ListFunctionsInFile(text, strip)
    IN  [j \in 1..Len(fs) |-> <<fs[j][1], fs[j][2], path>>]

\* lines 300-306: the entries of the files from the k-th on
RECURSIVE ListFrom(_, _, _)
ListFrom(all, k, strip) ==
    IF k > Len(all) THEN <<>>
    ELSE LET c == OpenRead(all[k].file)
         IN  (IF c.raised \in SkippedErrors THEN <<>>
              ELSE EntriesOfFile(all[k].path, c.value, strip))
             \o ListFrom(all, k + 1, strip)

\* lines 287-308; src_dir / file_name exists when src_dir itself holds the file
ListAllFunctions(tr, slf, name, strip) ==
    IF IsGiven(name)
    THEN IF HoldsFile(tr[1], name)
         THEN LET c == OpenRead(FileNamed(tr[1], name))
              IN  IF c.raised # None THEN c
                  ELSE Return(EntriesOfFile(<<1, name>>, c.value, strip))
         ELSE Return(<<>>)
    ELSE Return(ListFrom(GetAllSourceFiles(tr, slf), 1, strip))

\* lines 347-356: the locations in the files from the k-th on
RECURSIVE LocationsFrom(_, _, _)
LocationsFrom(all, k, function_name) ==
    IF k > Len(all) THEN <<>>
    ELSE LET c == OpenRead(all[k].file)
         IN  (IF c.raised \in SkippedErrors THEN <<>>
              ELSE LocationsInFile(all[k].path, c.value, function_name))
             \o LocationsFrom(all, k + 1, function_name)

\* lines 343-358 on the files of the root
FindLocationsUnderRoot(tr, slf, function_name) ==
    Return(LocationsFrom(GetAllSourceFiles(tr, slf), 1, function_name))

----------------------------------------------------------------------------
(* The lexical classes of section 4.1 of the specification, against which    *)
(* the scanners are judged: every character is plain code ("code"), part of  *)
(* a string or character literal ("lit") or part of a comment ("cmt").  The  *)
(* newline that ends a line comment is plain code.                           *)

RECURSIVE Classes(_, _, _, _)
Classes(text, i, mode, delim) ==
    IF i > Len(text) THEN <<>>
    ELSE LET c     == text[i]
             two   == i < Len(text)
         IN  CASE mode = "code" ->
                    IF c = "/" /\ two /\ text[i + 1] = "/"
                    THEN <<"cmt", "cmt">> \o Classes(text, i + 2, "line", delim)
                    ELSE IF c = "/" /\ two /\ text[i + 1] = "*"
                    THEN <<"cmt", "cmt">> \o Classes(text, i + 2, "block", delim)
                    ELSE IF c \in {DQ, SQ}
                    THEN <<"lit">> \o Classes(text, i + 1, "lit", c)
                    ELSE <<"code">> \o Classes(text, i + 1, "code", delim)
               [] mode = "lit" ->
                    IF c = BS
                    THEN IF two
                         THEN <<"lit", "lit">> \o Classes(text, i + 2, "lit", delim)
                         ELSE <<"lit">>
                    ELSE IF c = delim
                    THEN <<"lit">> \o Classes(text, i + 1, "code", delim)
                    ELSE <<"lit">> \o Classes(text, i + 1, "lit", delim)
               [] mode = "line" ->
                    IF c = NL
                    THEN <<"code">> \o Classes(text, i + 1, "code", delim)
                    ELSE <<"cmt">> \o Classes(text, i + 1, "line", delim)
               [] mode = "block" ->
                    IF c = "*" /\ two /\ text[i + 1] = "/"
                    THEN <<"cmt", "cmt">> \o Classes(text, i + 2, "code", delim)
                    ELSE <<"cmt">> \o Classes(text, i + 1, "block", delim)

ClassOf(text) == Classes(text, 1, "code", None)

\* number of '{' minus number of '}' among the plain-code characters of text
PlainBraces(text) ==
    LET cl == ClassOf(text)
    IN  Cardinality({i \in 1..Len(text) : cl[i] = "code" /\ text[i] = "{"})
        - Cardinality({i \in 1..Len(text) : cl[i] = "code" /\ text[i] = "}"})

\* the characters of text that are not part of a comment, in order
NonComment(text) ==
    LET cl == ClassOf(text)
        kept == SelectSeq([i \in 1..Len(text) |-> <<text[i], cl[i]>>],
                          LAMBDA p : p[2] # "cmt")
    IN  [j \in 1..Len(kept) |-> kept[j][1]]

CountOf(text, ch) == Cardinality({i \in 1..Len(text) : text[i] = ch})

\* s is a subsequence of t
RECURSIVE IsSubseq(_, _)
IsSubseq(s, t) ==
    IF s = <<>> THEN TRUE
    ELSE IF t = <<>> THEN FALSE
    ELSE IF Head(s) = Head(t) THEN IsSubseq(Tail(s), Tail(t))
    ELSE IsSubseq(s, Tail(t))

----------------------------------------------------------------------------
(* Specification SpecText: a scanner applied to an arbitrary short text *)

MaxLen == 5

TextChars == {DQ, SQ, BS, "/", "*", NL, "{", "}"}

Texts(chars, n) == UNION {[1..k -> chars] : k \in 0..n}

InitText ==
    /\ content \in Texts(TextChars, MaxLen)
    /\ literal = <<>>
    /\ at = 0
    /\ start_idx = 0
    /\ files = <<>>
    /\ line_number = NoLine
    /\ remove_comments = FALSE
    /\ file_name = NoFileName
    /\ self = Extractor
    /\ dirs = <<>>
    /\ calls = 0
    /\ input_file = None
    /\ pc = "init"
    /\ result = None

\* _remove_comments(content)
DoRemoveComments ==
    /\ pc = "init"
    /\ pc' = "stripped"
    /\ result' = RemoveComments(content)
    /\ UNCHANGED args

\* _count_braces_in_text(content)
DoCountBraces ==
    /\ pc = "init"
    /\ pc' = "counted"
    /\ result' = CountBracesInText(content)
    /\ UNCHANGED args

NextText == DoRemoveComments \/ DoCountBraces

SpecText == InitText /\ [][NextText]_vars

----------------------------------------------------------------------------
(* Specification SpecLiteral: the brace counter applied to a line with and   *)
(* without a string literal inserted at some place                           *)

MaxBase == 4

LineChars == {DQ, SQ, BS, "/", "*", "{", "}"}

\* "{"  "}"  "\"{"  "{\\"  "'{"  "}//"  '{'  '\'}'
Literals ==
    { <<DQ, "{", DQ>>, <<DQ, "}", DQ>>, <<DQ, BS, DQ, "{", DQ>>,
      <<DQ, "{", BS, BS, DQ>>, <<DQ, SQ, "{", DQ>>, <<DQ, "}", "/", "/", DQ>>,
      <<SQ, "{", SQ>>, <<SQ, BS, SQ, "}", SQ>> }

Insert(text, n, lit) == SubSeq(text, 1, n) \o lit \o SubSeq(text, n + 1, Len(text))

InitLiteral ==
    /\ content \in Texts(LineChars, MaxBase)
    /\ literal \in Literals
    /\ at \in 0..Len(content)
    /\ start_idx = 0
    /\ files = <<>>
    /\ line_number = NoLine
    /\ remove_comments = FALSE
    /\ file_name = NoFileName
    /\ self = Extractor
    /\ dirs = <<>>
    /\ calls = 0
    /\ input_file = None
    /\ pc = "init"
    /\ result = None

\* _count_braces_in_text on the line without and with the literal
DoCountBracesLiteral ==
    /\ pc = "init"
    /\ pc' = "counted"
    /\ result' = [without |-> CountBracesInText(content),
                  with    |-> CountBracesInText(Insert(content, at, literal))]
    /\ UNCHANGED args

NextLiteral == DoCountBracesLiteral

SpecLiteral == InitLiteral /\ [][NextLiteral]_vars

----------------------------------------------------------------------------
(* Specification SpecFile: the Boundary Detector and the Brace Matcher on   *)
(* the lines of one file, for the function name f                           *)

MaxLines == 4

Name == <<"f">>

TypeAndName   == <<"i", "n", "t", " ", "f">>
ParamList     == <<"(", "i", "n", "t", " ", "x", ")">>
ParamListOpen == <<"(", "x", ")", " ", "{">>
SigOpen       == <<"f", "(", ")", " ", "{">>
OneLiner      == <<"f", "(", ")", " ", "{", " ", "}">>
Open          == <<"{">>
Close         == <<"}">>
CommentOpen   == <<"/", "/", "{">>
StringOpen    == <<"x", "=", DQ, "{", DQ, ";">>
CommentClose  == <<"/", "*", "}", "*", "/">>

FileLines ==
    { TypeAndName, ParamList, ParamListOpen, SigOpen, OneLiner, Open, Close,
      CommentOpen, StringOpen, CommentClose }

FileContents(pool, n) == {Join(ls) : ls \in UNION {[1..k -> pool] : k \in 1..n}}

InitFile ==
    /\ content \in FileContents(FileLines, MaxLines)
    /\ literal = <<>>
    /\ at = 0
    /\ start_idx = 0
    /\ files = <<>>
    /\ line_number = NoLine
    /\ remove_comments = FALSE
    /\ file_name = NoFileName
    /\ self = Extractor
    /\ dirs = <<>>
    /\ calls = 0
    /\ input_file = None
    /\ pc = "init"
    /\ result = None

\* _is_function_declaration(lines, i, "f") for every line i of the file
DoIsFunctionDeclaration ==
    /\ pc = "init"
    /\ pc' = "detected"
    /\ result' = LET lines == Split(content)
                 IN  [i \in 1..Len(lines) |-> IsFunctionDeclaration(lines, i, Name)]
    /\ UNCHANGED args

\* _extract_complete_function(lines, start_idx, "f") at a line the Boundary
\* Detector accepts, as _parse_function calls it (lines 86, 88)
DoExtractCompleteFunction ==
    /\ pc = "init"
    /\ \E idx \in {i \in 1..Len(Split(content)) :
                      IsFunctionDeclaration(Split(content), i, Name)} :
          /\ start_idx' = idx
          /\ result' = ExtractCompleteFunction(Split(content), idx, Name)
    /\ pc' = "extracted"
    /\ UNCHANGED <<content, literal, at, files, line_number, remove_comments,
                   file_name, self, dirs, calls, input_file>>

NextFile == DoIsFunctionDeclaration \/ DoExtractCompleteFunction

SpecFile == InitFile /\ [][NextFile]_vars

----------------------------------------------------------------------------
(* Specification SpecTree: the tree-wide operations on a tree of files that *)
(* define f in two ways, call it, or hold an else before the call           *)

MaxFiles == 2
MaxLineNumber == 5

Definition    == <<"i", "n", "t", " ", "f", "(", ")", "{", "}">>
DefinitionB   == <<"f", "(", ")", "{", ";", "}">>
CallStatement == <<"f", "(", ")", ";">>
Else          == <<"e", "l", "s", "e">>

\* the files a tree is made of, each given by its lines
SourceFiles ==
    { Join(<<Definition>>),
      Join(<<DefinitionB>>),
      Join(<<CallStatement, Definition>>),
      Join(<<CallStatement, DefinitionB>>),
      Join(<<CallStatement>>),
      Join(<<Else, CallStatement>>),
      Join(<<CallStatement, CallStatement, CallStatement, CallStatement,
             DefinitionB>>) }

Trees == UNION {[1..n -> SourceFiles] : n \in 1..MaxFiles}

InitTree ==
    /\ content = <<>>
    /\ literal = <<>>
    /\ at = 0
    /\ start_idx = 0
    /\ files \in Trees
    /\ line_number \in {NoLine} \cup 0..MaxLineNumber
    /\ remove_comments = FALSE
    /\ file_name = NoFileName
    /\ self = Extractor
    /\ dirs = <<>>
    /\ calls = 0
    /\ input_file = None
    /\ pc = "init"
    /\ result = None

\* extract_function(function_name="f", file_name=None, line_number, remove_comments)
DoExtractFromDirectory ==
    /\ pc = "init"
    /\ pc' = "extracted"
    /\ result' = ExtractFromDirectory(files, Name, line_number, remove_comments)
    /\ UNCHANGED args

\* find_function_locations("f")
DoFindFunctionLocations ==
    /\ pc = "init"
    /\ pc' = "located"
    /\ result' = FindFunctionLocations(files, Name)
    /\ UNCHANGED args

NextTree == DoExtractFromDirectory \/ DoFindFunctionLocations

SpecTree == InitTree /\ [][NextTree]_vars

----------------------------------------------------------------------------
(* Specification SpecList: _list_functions_in_file on a file of definitions, *)
(* a forward declaration and control statements                              *)

MaxListLines == 4

\* int f() {}   static int h(int x) {}   int *p(void) {}   unsigned int u() {}
\* int g();     else if (x) {            if (x) {          }
DefF   == <<"i", "n", "t", " ", "f", "(", ")", " ", "{", "}">>
DefH   == <<"s", "t", "a", "t", "i", "c", " ", "i", "n", "t", " ", "h", "(", "i", "n", "t", " ", "x", ")", " ", "{", "}">>
DefP   == <<"i", "n", "t", " ", "*", "p", "(", "v", "o", "i", "d", ")", " ", "{", "}">>
DefU   == <<"u", "n", "s", "i", "g", "n", "e", "d", " ", "i", "n", "t", " ", "u", "(", ")", " ", "{", "}">>
DeclG  == <<"i", "n", "t", " ", "g", "(", ")", ";">>
ElseIf == <<"e", "l", "s", "e", " ", "i", "f", " ", "(", "x", ")", " ", "{">>
If     == <<"i", "f", " ", "(", "x", ")", " ", "{">>

ListLines == {DefF, DefH, DefP, DefU, DeclG, ElseIf, If, Close}

InitList ==
    /\ content \in FileContents(ListLines, MaxListLines)
    /\ literal = <<>>
    /\ at = 0
    /\ start_idx = 0
    /\ files = <<>>
    /\ line_number = NoLine
    /\ remove_comments \in BOOLEAN
    /\ file_name = NoFileName
    /\ self = Extractor
    /\ dirs = <<>>
    /\ calls = 0
    /\ input_file = None
    /\ pc = "init"
    /\ result = None

\* _list_functions_in_file(filepath, remove_comments) on the file's content
DoListFunctionsInFile ==
    /\ pc = "init"
    /\ pc' = "listed"
    /\ result' = ListFunctionsInFile(content, remove_comments)
    /\ UNCHANGED args

NextList == DoListFunctionsInFile

SpecList == InitList /\ [][NextList]_vars

----------------------------------------------------------------------------
(* Specification SpecDetect: the Boundary Detector on lines that hold the   *)
(* name inside a string literal or on a preprocessor line                   *)

MaxDetectLines == 3

\* puts("a f()",     puts("f()",     #define f(x)     #if x     x)
StringCall       == <<"p", "u", "t", "s", "(", "\"", "a", " ", "f", "(", ")", "\"", ",">>
StringCallDirect == <<"p", "u", "t", "s", "(", "\"", "f", "(", ")", "\"", ",">>
Macro            == <<"#", "d", "e", "f", "i", "n", "e", " ", "f", "(", "x", ")">>
Directive        == <<"#", "i", "f", " ", "x">>
Argument         == <<"x", ")">>

DetectLines ==
    {StringCall, StringCallDirect, Macro, Directive, Argument, SigOpen, TypeAndName}

InitDetect ==
    /\ content \in FileContents(DetectLines, MaxDetectLines)
    /\ literal = <<>>
    /\ at = 0
    /\ start_idx = 0
    /\ files = <<>>
    /\ line_number = NoLine
    /\ remove_comments = FALSE
    /\ file_name = NoFileName
    /\ self = Extractor
    /\ dirs = <<>>
    /\ calls = 0
    /\ input_file = None
    /\ pc = "init"
    /\ result = None

NextDetect == DoIsFunctionDeclaration

SpecDetect == InitDetect /\ [][NextDetect]_vars

----------------------------------------------------------------------------
(* Specification SpecBlock: the Brace Matcher on a function whose body      *)
(* holds a block comment that spans several lines                           *)

MaxBlockLines == 5

BlockOpen  == <<"/", "*">>
BlockClose == <<"*", "/">>

\* f() {     /*     */     {     }
BlockLines == {SigOpen, BlockOpen, BlockClose, Open, Close}

InitBlock ==
    /\ content \in FileContents(BlockLines, MaxBlockLines)
    /\ literal = <<>>
    /\ at = 0
    /\ start_idx = 0
    /\ files = <<>>
    /\ line_number = NoLine
    /\ remove_comments = FALSE
    /\ file_name = NoFileName
    /\ self = Extractor
    /\ dirs = <<>>
    /\ calls = 0
    /\ input_file = None
    /\ pc = "init"
    /\ result = None

NextBlock == DoIsFunctionDeclaration \/ DoExtractCompleteFunction

SpecBlock == InitBlock /\ [][NextBlock]_vars

----------------------------------------------------------------------------
(* Specification SpecRoot: the caller operations on a source root whose     *)
(* directories hold files that define f, call it, or cannot be read         *)

MaxDirs == 2

NameA       == <<"a", ".", "c">>
NameB       == <<"b", ".", "C">>
NameMissing == <<"c", ".", "c">>

\* a file with the definition on its fifth line
LateDefinition ==
    Join(<<CallStatement, CallStatement, CallStatement, CallStatement, Definition>>)

RootTexts == {Definition, DefinitionB, CallStatement, LateDefinition}

RootFiles == [name : {NameA, NameB}, text : RootTexts, readable : BOOLEAN]

\* a directory holds no file or one file
Directories == {<<>>} \cup {<<f>> : f \in RootFiles}

Roots == UNION {[1..n -> Directories] : n \in 1..MaxDirs}

FileNameArgs == {NoFileName, <<>>, NameA, NameB, NameMissing}

LineArgs == {NoLine, 0, 1, 5}

InitRoot ==
    /\ content = <<>>
    /\ literal = <<>>
    /\ at = 0
    /\ start_idx = 0
    /\ files = <<>>
    /\ line_number \in LineArgs
    /\ remove_comments = FALSE
    /\ file_name \in FileNameArgs
    /\ self = Extractor
    /\ dirs \in Roots
    /\ calls = 0
    /\ input_file = None
    /\ pc = "init"
    /\ result = None

\* extract_function("f", file_name, line_number, remove_comments)
DoExtractFunction ==
    /\ pc = "init"
    /\ pc' = "extracted"
    /\ result' = ExtractFunction(dirs, self, Name, file_name, line_number, remove_comments)
    /\ UNCHANGED args

\* list_all_functions(file_name, remove_comments)
DoListAllFunctions ==
    /\ pc = "init"
    /\ pc' = "listed"
    /\ result' = ListAllFunctions(dirs, self, file_name, remove_comments)
    /\ UNCHANGED args

\* find_function_locations("f")
DoFindLocationsUnderRoot ==
    /\ pc = "init"
    /\ pc' = "located"
    /\ result' = FindLocationsUnderRoot(dirs, self, Name)
    /\ UNCHANGED args

NextRoot == DoExtractFunction \/ DoListAllFunctions \/ DoFindLocationsUnderRoot

SpecRoot == InitRoot /\ [][NextRoot]_vars

----------------------------------------------------------------------------
(* Specification SpecCalls: a sequence of calls of the caller operations on *)
(* one extractor and one source root                                        *)

MaxCalls == 2

NameObject == <<"n", ".", "o">>

\* lines 62, 267, 312, 349: every open() of an operation is open(filepath,
\* 'r'); the files under the source root after a call
RootAfterWrite(tr) ==
    [d \in 1..Len(tr) |-> [j \in 1..Len(tr[d]) |-> [tr[d][j] EXCEPT !.text = <<>>]]]
RootAfterCall(tr) == tr

\* the roots the calls are made on
CallRoots ==
    { << <<[name |-> NameA, text |-> Definition, readable |-> TRUE]>>,
         <<[name |-> NameB, text |-> DefinitionB, readable |-> TRUE]>> >>,
      << <<[name |-> NameA, text |-> CallStatement, readable |-> TRUE]>>,
         <<[name |-> NameA, text |-> LateDefinition, readable |-> TRUE]>> >>,
      << <<[name |-> NameObject, text |-> Definition, readable |-> TRUE],
           [name |-> NameB, text |-> LateDefinition, readable |-> TRUE]>>,
         <<[name |-> NameA, text |-> Definition, readable |-> FALSE]>> >>,
      << <<>>,
         <<[name |-> NameB, text |-> Definition, readable |-> TRUE],
           [name |-> NameA, text |-> DefinitionB, readable |-> TRUE]>> >> }

InitCalls ==
    /\ content = <<>>
    /\ literal = <<>>
    /\ at = 0
    /\ start_idx = 0
    /\ files = <<>>
    /\ line_number = NoLine
    /\ remove_comments = FALSE
    /\ file_name = NoFileName
    /\ self = Extractor
    /\ dirs \in CallRoots
    /\ calls = 0
    /\ input_file = None
    /\ pc = "init"
    /\ result = None

\* one more call of extract_function("f", file_name, line_number)
CallExtractFunction ==
    /\ calls < MaxCalls
    /\ \E name \in FileNameArgs, line \in LineArgs :
          /\ file_name' = name
          /\ line_number' = line
          /\ result' = ExtractFunction(dirs, self, Name, name, line, remove_comments)
    /\ dirs' = RootAfterCall(dirs)
    /\ calls' = calls + 1
    /\ pc' = "extracted"
    /\ UNCHANGED <<content, literal, at, start_idx, files, remove_comments, self,
                   input_file>>

\* one more call of list_all_functions(file_name)
CallListAllFunctions ==
    /\ calls < MaxCalls
    /\ \E name \in FileNameArgs :
          /\ file_name' = name
          /\ result' = ListAllFunctions(dirs, self, name, remove_comments)
    /\ dirs' = RootAfterCall(dirs)
    /\ calls' = calls + 1
    /\ pc' = "listed"
    /\ UNCHANGED <<content, literal, at, start_idx, files, line_number,
                   remove_comments, self, input_file>>

\* one more call of find_function_locations("f")
CallFindFunctionLocations ==
    /\ calls < MaxCalls
    /\ result' = FindLocationsUnderRoot(dirs, self, Name)
    /\ dirs' = RootAfterCall(dirs)
    /\ calls' = calls + 1
    /\ pc' = "located"
    /\ UNCHANGED <<content, literal, at, start_idx, files, line_number,
                   remove_comments, file_name, self, input_file>>

NextCalls == CallExtractFunction \/ CallListAllFunctions \/ CallFindFunctionLocations

SpecCalls == InitCalls /\ [][NextCalls]_vars

----------------------------------------------------------------------------
(* Specification SpecParse: _parse_function and the Boundary Detector on a  *)
(* file of one-line definitions of f, line comments that fill a line and    *)
(* return types on a line of their own, for every line number               *)

MaxParseLines == 4

LineComment == <<"/", "/", "x">>
ReturnType  == <<"i", "n", "t">>

ParseLines == {OneLiner, DefinitionB, LineComment, ReturnType}

\* the lines _parse_function works on: line 70-72
ParsedLines(text, strip) == Split(IF strip THEN RemoveComments(text) ELSE text)

InitParse ==
    /\ content \in FileContents(ParseLines, MaxParseLines)
    /\ literal = <<>>
    /\ at = 0
    /\ start_idx = 0
    /\ files = <<>>
    /\ line_number \in {NoLine} \cup 0..MaxLineNumber
    /\ remove_comments \in BOOLEAN
    /\ file_name = NoFileName
    /\ self = Extractor
    /\ dirs = <<>>
    /\ calls = 0
    /\ input_file = None
    /\ pc = "init"
    /\ result = None

\* _parse_function(content, "f", line_number, remove_comments); start_idx is
\* the line the extraction starts at (best_match or matches[0], plus one), 0
\* when there is none
DoParseFunction ==
    /\ pc = "init"
    /\ pc' = "parsed"
    /\ start_idx' = StartLine(ParsedLines(content, remove_comments), Name, line_number)
    /\ result' = ParseFunction(content, Name, line_number, remove_comments)
    /\ UNCHANGED <<content, literal, at, files, line_number, remove_comments,
                   file_name, self, dirs, calls, input_file>>

NextParse ==
    \/ DoParseFunction
    \/ DoIsFunctionDeclaration

SpecParse == InitParse /\ [][NextParse]_vars

----------------------------------------------------------------------------
(* _process_trace_json of src/services/uftrace_service.py: lines 12-47.  A   *)
(* trace file is missing or holds a JSON value: an object, with or without  *)
(* the key 'traceEvents', or an array of events.  An event has a phase, a   *)
(* name, a source line in its args (or none), a pid, and may have a tid.    *)

MissingFile == [kind |-> "missing", has_events |-> FALSE, events |-> <<>>]
JsonObject(has_events, events) ==
    [kind |-> "object", has_events |-> has_events, events |-> events]
JsonArray(events) == [kind |-> "array", has_events |-> FALSE, events |-> events]

\* lines 24-26: an event without a tid gets its pid as tid
FillTid(event) ==
    IF ~event.has_tid THEN [event EXCEPT !.has_tid = TRUE, !.tid = event.pid]
    ELSE event

\* lines 28-29: only the begin and end events are kept
KeptPhases == {"B", "E"}
BeginEndEvents(events) ==
    SelectSeq([i \in 1..Len(events) |-> FillTid(events[i])],
              LAMBDA event : event.ph \in KeptPhases)

\* line 39: the events that contribute a function
IsBeginOrEnd(event) == event.ph \in {"B", "E"}
IsBegin(event) == event.ph = "B"

\* lines 40-42: the key of an event
Key(event) == <<event.name, event.srcline>>

\* lines 36-45: the loop over the kept events, with funcs and seen so far
RECURSIVE FuncsFrom(_, _, _, _)
FuncsFrom(events, i, funcs, seen) ==
    IF i > Len(events) THEN funcs
    ELSE IF IsBegin(events[i]) /\ Key(events[i]) \notin seen
         THEN FuncsFrom(events, i + 1,
                        Append(funcs, [name |-> events[i].name,
                                       srcline |-> events[i].srcline]),
                        seen \cup {Key(events[i])})
         ELSE FuncsFrom(events, i + 1, funcs, seen)

\* lines 13-22: the file is read as an object that holds 'traceEvents'; an
\* array holds no such element, as its elements are events
Readable(file) == file.kind = "object" /\ file.has_events

\* what _process_trace_json returns or raises on a file
ProcessTraceJson(file) ==
    IF ~Readable(file) THEN Raise("Exception")
    ELSE Return(FuncsFrom(BeginEndEvents(file.events), 1, <<>>, {}))

\* line 32: json.dump(data['traceEvents'], open(input_file, 'w')): the file
\* after the call holds the array of the kept events
FileAfter(file) ==
    IF ~Readable(file) THEN file
    ELSE JsonArray(BeginEndEvents(file.events))

----------------------------------------------------------------------------
(* Specification SpecTrace: calls of _process_trace_json on one path whose  *)
(* file holds a trace of begin, end and metadata events of f and g          *)

MaxEvents == 3

FunctionNames == {"f", "g"}
SourceLines == {None, "a.c:1"}

BeginEvents ==
    {[ph |-> "B", name |-> n, srcline |-> s, has_tid |-> h,
      tid |-> IF h THEN 1 ELSE 0, pid |-> 2] :
        n \in FunctionNames, s \in SourceLines, h \in BOOLEAN}

OtherEvents ==
    {[ph |-> p, name |-> "f", srcline |-> "a.c:1", has_tid |-> FALSE,
      tid |-> 0, pid |-> 2] : p \in {"E", "M"}}

Traces == UNION {[1..k -> BeginEvents \cup OtherEvents] : k \in 0..MaxEvents}

TraceFiles ==
    {MissingFile, JsonObject(FALSE, <<>>)} \cup {JsonObject(TRUE, t) : t \in Traces}

InitTrace ==
    /\ content = <<>>
    /\ literal = <<>>
    /\ at = 0
    /\ start_idx = 0
    /\ files = <<>>
    /\ line_number = NoLine
    /\ remove_comments = FALSE
    /\ file_name = NoFileName
    /\ self = Extractor
    /\ dirs = <<>>
    /\ calls = 0
    /\ input_file \in TraceFiles
    /\ pc = "init"
    /\ result = None

\* one more call of _process_trace_json(input_file)
DoProcessTraceJson ==
    /\ calls < MaxCalls
    /\ result' = ProcessTraceJson(input_file)
    /\ input_file' = FileAfter(input_file)
    /\ calls' = calls + 1
    /\ pc' = "processed"
    /\ UNCHANGED <<content, literal, at, start_idx, files, line_number,
                   remove_comments, file_name, self, dirs>>

NextTrace == DoProcessTraceJson

SpecTrace == InitTrace /\ [][NextTrace]_vars

----------------------------------------------------------------------------
(* Claims on the scanners *)

\* lit is one literal: every character of it is a literal character and the
\* character after it is plain code
IsLiteral(lit) ==
    LET cl == ClassOf(Append(lit, "{"))
    IN  /\ \A i \in 1..Len(lit) : cl[i] = "lit"
        /\ cl[Len(lit) + 1] = "code"

\* the place n of the line is a place where a literal can stand: the brace
\* counter stands there, outside any literal
InPlainCode(text, n) ==
    LET st == CountBracesStateAt(text, CountBracesInit, n + 1)
    IN  st.i = n + 1 /\ ~st.broke /\ ~st.in_string /\ ~st.in_char

\* C1: the Comment Stripper returns a text with exactly as many newline
\* characters as its input, for every input text.
C1_LineCountPreserved ==
    pc = "stripped" => CountOf(result, NL) = CountOf(content, NL)

\* C2: in the brace counter, a brace or quote inside a line comment or a block
\* comment never changes the count: for every line (a text without newline) the
\* count is the number of '{' minus the number of '}' in plain code.
C2_CommentBracesIgnored ==
    (pc = "counted" /\ CountOf(content, NL) = 0)
        => result = PlainBraces(content)

\* C7: the Comment Stripper leaves every string and character literal verbatim:
\* the characters that are not part of a comment appear in the output in their
\* original order, and a text whose only "//", "/*" and "*/" are inside literals
\* (a text with no comment) is returned unchanged.
C7_LiteralsVerbatim ==
    pc = "stripped" =>
        /\ IsSubseq(NonComment(content), result)
        /\ (\A i \in 1..Len(content) : ClassOf(content)[i] # "cmt")
               => result = content

\* a stripped text in which a comment opener stands inside a literal
C7_Witness ==
    /\ pc = "stripped"
    /\ \E i \in 1..(Len(content) - 1) :
          /\ content[i] = "/" /\ content[i + 1] \in {"/", "*"}
          /\ ClassOf(content)[i] = "lit" /\ ClassOf(content)[i + 1] = "lit"
    /\ result = content

----------------------------------------------------------------------------
(* Claims on the Boundary Detector and the Brace Matcher *)

\* line k of the file holds a '{' that is plain code, and the number of plain-
\* code '{' minus '}' of line k; cl is the classification of the whole file
LineOffset(lines, k) == Len(Join(SubSeq(lines, 1, k - 1))) + (IF k > 1 THEN 1 ELSE 0)

PlainInLine(lines, cl, k, ch) ==
    {p \in 1..Len(lines[k]) :
        lines[k][p] = ch /\ cl[LineOffset(lines, k) + p] = "code"}

PlainOpenIn(lines, cl, k) == PlainInLine(lines, cl, k, "{") # {}

RECURSIVE PlainDepth(_, _, _, _)
PlainDepth(lines, cl, from, to) ==
    IF to < from THEN 0
    ELSE PlainDepth(lines, cl, from, to - 1)
         + Cardinality(PlainInLine(lines, cl, to, "{"))
         - Cardinality(PlainInLine(lines, cl, to, "}"))

\* the first line at or after start that holds a plain-code '{'; 0 if none
FirstPlainOpen(lines, start) ==
    LET cl   == ClassOf(Join(lines))
        hits == {k \in start..Len(lines) : PlainOpenIn(lines, cl, k)}
    IN  IF hits = {} THEN 0 ELSE CHOOSE k \in hits : \A j \in hits : k <= j

\* the first line at or after start at which the running plain-code depth,
\* counted from start, is back to zero after a '{'; 0 if none
FirstBalanced(lines, start) ==
    LET cl   == ClassOf(Join(lines))
        first == FirstPlainOpen(lines, start)
        hits == {k \in start..Len(lines) :
                    first # 0 /\ first <= k /\ PlainDepth(lines, cl, start, k) = 0}
    IN  IF hits = {} THEN 0 ELSE CHOOSE k \in hits : \A j \in hits : k <= j

\* the start line is accepted for the name it holds itself (not for the name on
\* the line after it): the claims on the Brace Matcher are stated for these
HoldsWord(s, word) ==
    \E p \in 1..Len(s) :
        /\ StartsWithAt(s, p, word)
        /\ (p = 1 \/ s[p - 1] \notin WordChars)
        /\ (p + Len(word) > Len(s) \/ s[p + Len(word)] \notin WordChars)

StartsAtSignature ==
    /\ start_idx \in 1..Len(Split(content))
    /\ HoldsWord(Split(content)[start_idx], Name)

\* C3: the line that seeds the depth counter of the Brace Matcher is the first
\* line at or after the start line that holds a '{' in plain code; a line whose
\* only '{' is inside a literal or a comment neither seeds the counter nor ends
\* the extraction (the returned text reaches the seeding line).
C3_SeedIsFirstPlainBrace ==
    (pc = "extracted" /\ StartsAtSignature) =>
        LET lines == Split(content)
            first == FirstPlainOpen(lines, start_idx)
        IN  /\ SeedLine(lines, start_idx) = first
            /\ first # 0 => Len(Split(result)) >= first - start_idx + 1

\* C5: the text returned by the Brace Matcher for an accepted start line is
\* exactly the lines from the start line through the first line at which the
\* running plain-code brace depth returns to zero, inclusive.
C5_EndsWhereDepthReturnsToZero ==
    (pc = "extracted" /\ StartsAtSignature) =>
        LET lines == Split(content)
            last  == FirstBalanced(lines, start_idx)
        IN  last # 0 => result = Join(SubSeq(lines, start_idx, last))

\* a line that is a return type and the name, and a line that starts the
\* parameter list and holds no call of the function
IsTypeAndName(line, function_name) ==
    LET s == Strip(line)
        n == Len(s) - Len(function_name)
    IN  /\ n >= 2
        /\ SubSeq(s, n + 1, Len(s)) = function_name
        /\ s[n] \in Whitespace
        /\ \A k \in 1..(n - 1) : s[k] \in WordChars

IsParamListStart(line, function_name) ==
    /\ Strip(line) # <<>>
    /\ Head(Strip(line)) = "("
    /\ ~SearchName(line, function_name)

\* C9: for a definition whose return type and name are on line N and whose
\* parameter list starts on line N+1, the Boundary Detector accepts line N and
\* does not accept line N+1.
C9_TwoLineSignature ==
    pc = "detected" =>
        LET lines == Split(content)
        IN  \A n \in 1..(Len(lines) - 1) :
                (IsTypeAndName(lines[n], Name) /\ IsParamListStart(lines[n + 1], Name))
                    => (result[n] /\ ~result[n + 1])

\* the detector applied to "int f" / "(int x)" / "{" / "}"
C9_Witness ==
    /\ pc = "detected"
    /\ Split(content) = <<TypeAndName, ParamList, Open, Close>>
    /\ result = <<TRUE, FALSE, FALSE, FALSE>>

----------------------------------------------------------------------------
(* Claims on the tree-wide operations *)

\* the file holds a Boundary Detector hit at some 1-based line of lo..hi
HitWithin(text, function_name, lo, hi) ==
    LET lines == Split(text)
    IN  \E i \in lo..hi :
            i \in 1..Len(lines) /\ IsFunctionDeclaration(lines, i, function_name)

\* C6: in a tree-wide extract_function call where the name resolves in several
\* files and a line number L is given, the returned text comes from a file
\* with a Boundary Detector hit at some line of L-3 .. L+3, whenever a matching
\* file has such a hit; L-3 and L+3 are lines of the window.
C6_WindowSelectsVerifiedFile ==
    (pc = "extracted" /\ line_number # NoLine /\ line_number # 0) =>
        LET matches == DirectoryMatches(files, Name, line_number, remove_comments)
            near(k) == HitWithin(files[k], Name, line_number - WindowRadius,
                                 line_number + WindowRadius)
        IN  (Len(matches) >= 2 /\ \E j \in 1..Len(matches) : near(matches[j]))
                => \E j \in 1..Len(matches) :
                       /\ near(matches[j])
                       /\ result = ParseFunction(files[matches[j]], Name,
                                                 line_number, remove_comments)

\* the pairs (file, line) of the lines that define f, file by file and line by
\* line
RECURSIVE DefinitionPairs(_, _)
DefinitionPairs(tree, k) ==
    IF k > Len(tree) THEN <<>>
    ELSE LET lines == Split(tree[k])
             defs  == SelectSeq([i \in 1..Len(lines) |-> i],
                                LAMBDA i : lines[i] \in {Definition, DefinitionB})
         IN  [j \in 1..Len(defs) |-> <<k, defs[j]>>] \o DefinitionPairs(tree, k + 1)

\* C8: find_function_locations returns exactly one (file, line) pair for each
\* definition of the name in the tree, and no pair for a line that only calls
\* the function or only precedes a call.
C8_LocationsAreDefinitions ==
    pc = "located" => result = DefinitionPairs(files, 1)

----------------------------------------------------------------------------
(* Claims on the Signature Lister *)

\* the entries the lines of a file stand for, in order of appearance, under a
\* table that gives the entry of each line that has one
RECURSIVE EntriesOf(_, _)
EntriesOf(lines, table) ==
    IF lines = <<>> THEN <<>>
    ELSE (IF Head(lines) \in DOMAIN table THEN <<table[Head(lines)]>> ELSE <<>>)
         \o EntriesOf(Tail(lines), table)

\* the function definitions among the lines, each with its name and signature
DefinitionEntries ==
    (DefF :> <<<<"f">>, <<"f", "(", ")">>>>)
    @@ (DefH :> <<<<"h">>, <<"h", "(", "i", "n", "t", " ", "x", ")">>>>)
    @@ (DefP :> <<<<"p">>, <<"p", "(", "v", "o", "i", "d", ")">>>>)
    @@ (DefU :> <<<<"u">>, <<"u", "(", ")">>>>)

\* the lines the pattern matches: the definitions with a one-word return type,
\* and "else if (x) {", read as a function if with the return type else
PatternEntries ==
    (DefF :> <<<<"f">>, <<"f", "(", ")">>>>)
    @@ (DefH :> <<<<"h">>, <<"h", "(", "i", "n", "t", " ", "x", ")">>>>)
    @@ (DefP :> <<<<"p">>, <<"p", "(", "v", "o", "i", "d", ")">>>>)
    @@ (ElseIf :> <<<<"i", "f">>, <<"i", "f", "(", "x", ")">>>>)

\* C10 as stated: list_all_functions on a file returns exactly one entry per
\* function definition, in order of appearance, and no entry for a forward
\* declaration nor for a control statement followed by '{'.
C10_OneEntryPerDefinition ==
    pc = "listed" => result = EntriesOf(Split(content), DefinitionEntries)

\* C10 as amended: list_all_functions on a file returns, in order of
\* appearance, one entry per definition whose return type is one word (after
\* any static, extern, inline; a pointer type included) and no entry for a
\* forward declaration ending with ';' nor for "if (x) {"; a definition with a
\* return type of several words has no entry and "else if (x) {" has one.
C10_OneEntryPerPatternMatch ==
    pc = "listed" => result = EntriesOf(Split(content), PatternEntries)

\* three definitions and one forward declaration: exactly three entries
C10_Witness ==
    /\ pc = "listed"
    /\ Split(content) = <<DefF, DeclG, DefH, DefP>>
    /\ Len(result) = 3
    /\ result[1][1] = <<"f">> /\ result[2][1] = <<"h">> /\ result[3][1] = <<"p">>

----------------------------------------------------------------------------
(* Claims on the false positives of the Boundary Detector *)

\* the places of a line where the name, as a whole word start, is followed by
\* blanks and '('
NamePositions(s, function_name) ==
    {p \in 1..Len(s) :
        /\ StartsWithAt(s, p, function_name)
        /\ (p = 1 \/ s[p - 1] \notin WordChars)
        /\ LET q == SkipSpace(s, p + Len(function_name))
           IN  q <= Len(s) /\ s[q] = "("}

\* the name followed by '(' occurs on the line, and only inside literals
OnlyInsideLiteral(s, function_name) ==
    /\ NamePositions(s, function_name) # {}
    /\ \A p \in NamePositions(s, function_name) : ClassOf(s)[p] = "lit"

\* C14: the Boundary Detector never accepts a line on which the name followed
\* by '(' occurs only inside a string literal, at any place of the literal,
\* and never accepts a preprocessor line starting with '#'.
C14_NoStringNoMacro ==
    pc = "detected" =>
        LET lines == Split(content)
        IN  \A i \in 1..Len(lines) :
                /\ OnlyInsideLiteral(lines[i], Name) => ~result[i]
                /\ (Strip(lines[i]) # <<>> /\ Head(Strip(lines[i])) = "#") => ~result[i]

----------------------------------------------------------------------------
(* Claims on the end of the Brace Matcher *)

\* the running count of the Brace Matcher stays above zero at the end of every
\* line from the seeding line to the end of the file
NeverBalanced(lines, start, seed) ==
    \A k \in seed..Len(lines) : CountBracesInLines(SubSeq(lines, start, k)) > 0

\* C17: the Brace Matcher returns for every file and accepted start line, after
\* at most one step per line: the result is the run of lines from the start
\* line to some line of the file; when no line from the start line on holds a
\* '{', or when the depth never returns to zero before the end of the file,
\* the run reaches the last line of the file.
C17_BestEffortToEndOfFile ==
    pc = "extracted" =>
        LET lines == Split(content)
            seed  == SeedLine(lines, start_idx)
            rest  == Join(SubSeq(lines, start_idx, Len(lines)))
        IN  /\ \E e \in start_idx..Len(lines) :
                   result = Join(SubSeq(lines, start_idx, e))
            /\ (\A k \in start_idx..Len(lines) : ~HasBrace(lines[k])) => result = rest
            /\ (seed # 0 /\ NeverBalanced(lines, start_idx, seed)) => result = rest

\* f() { / { / } : the depth is 1, 2, 1 and the three lines are returned
C17_Witness ==
    /\ pc = "extracted"
    /\ Split(content) = <<SigOpen, Open, Close>>
    /\ start_idx = 1
    /\ result = content

----------------------------------------------------------------------------
(* Claims on block comments across lines in the Brace Matcher *)

\* line k starts inside a block comment opened on an earlier line
StartsInsideComment(lines, k) ==
    k > 1 /\ ClassOf(Join(lines))[LineOffset(lines, k)] = "cmt"

\* C19: during brace matching the state of a block comment persists across
\* lines: braces on lines inside a block comment opened on an earlier line of
\* the function do not change the running depth, so the function ends at the
\* line where the depth of the braces outside the comment returns to zero.
C19_BlockCommentPersists ==
    (pc = "extracted" /\ StartsAtSignature) =>
        LET lines == Split(content)
            last  == FirstBalanced(lines, start_idx)
        IN  ( /\ last # 0
              /\ ~StartsInsideComment(lines, start_idx)
              /\ \E k \in (start_idx + 1)..last : StartsInsideComment(lines, k) )
                => result = Join(SubSeq(lines, start_idx, last))

----------------------------------------------------------------------------
(* Claims on the agreement of the two scanners *)

\* the text is a single line
IsSingleLine(text) == \A p \in 1..Len(text) : text[p] # NL

\* C20: the brace counter and the comment stripper classify characters alike:
\* for every single line of text the brace count of the line equals the brace
\* count of the comment-stripped line.
C20_CountOfStrippedLine ==
    (pc = "counted" /\ IsSingleLine(content)) =>
        result = CountBracesInText(RemoveComments(content))

----------------------------------------------------------------------------
(* Claims on the caller operations *)

\* a file of that name exists somewhere under the source root
ExistsUnderRoot(tr, name) == \E d \in 1..Len(tr) : HoldsFile(tr[d], name)

\* C11: every caller operation that is given a file name (extract_function,
\* list_all_functions) raises a not-found error when no file of that name
\* exists under the source root; it never returns an empty or absent result.
C11_MissingNamedFileRaises ==
    (pc \in {"extracted", "listed"} /\ IsGiven(file_name)
        /\ ~ExistsUnderRoot(dirs, file_name))
        => result.raised = "FileNotFoundError"

\* the root without the j-th file of its d-th directory
WithoutFile(tr, d, j) ==
    [tr EXCEPT ![d] = SubSeq(tr[d], 1, j - 1) \o SubSeq(tr[d], j + 1, Len(tr[d]))]

\* the files of the root that cannot be read, by directory and place
UnreadableFiles(tr) ==
    UNION {{<<d, j>> : j \in {k \in 1..Len(tr[d]) : ~tr[d][k].readable}} :
              d \in 1..Len(tr)}

\* C12: in every tree-wide operation (extract_function and list_all_functions
\* without file name, find_function_locations) a file that cannot be read is
\* skipped: the operation does not raise and its result is the result of the
\* same operation on the root without that file.
C12_UnreadableFileSkipped ==
    /\ (pc = "extracted" /\ ~IsGiven(file_name)) =>
          /\ result.raised = None
          /\ \A p \in UnreadableFiles(dirs) :
                 result = ExtractFunction(WithoutFile(dirs, p[1], p[2]), self, Name,
                                          file_name, line_number, remove_comments)
    /\ (pc = "listed" /\ ~IsGiven(file_name)) =>
          /\ result.raised = None
          /\ \A p \in UnreadableFiles(dirs) :
                 result = ListAllFunctions(WithoutFile(dirs, p[1], p[2]), self,
                                           file_name, remove_comments)
    /\ pc = "located" =>
          /\ result.raised = None
          /\ \A p \in UnreadableFiles(dirs) :
                 result = FindLocationsUnderRoot(WithoutFile(dirs, p[1], p[2]), self, Name)

\* a root whose first file defines f and cannot be read: the locations are
\* those of the second file
C12_Witness ==
    /\ pc = "located"
    /\ dirs = << <<[name |-> NameA, text |-> Definition, readable |-> FALSE]>>,
                 <<[name |-> NameB, text |-> DefinitionB, readable |-> TRUE]>> >>
    /\ result = Return(<< <<<<2, NameB>>, 1>> >>)

\* the files in which the name resolves, in traversal order: the source files
\* that can be read and hold an accepted line
ResolvingFiles ==
    SelectSeq(GetAllSourceFiles(dirs, self),
              LAMBDA e : /\ e.file.readable
                         /\ ParseFunction(e.file.text, Name, line_number,
                                          remove_comments) # NoText)

TextFrom(e) == Return(ParseFunction(e.file.text, Name, line_number, remove_comments))

\* C13: in a tree-wide extract_function call, when the name resolves in no
\* file the absent value is returned and nothing is raised; when it resolves
\* in exactly one file that file's text is returned whatever the line number;
\* when it resolves in several files and no line number is given, or no file
\* verifies the line number, the text of the first of them is returned.
C13_ZeroOneOrFirstMatch ==
    (pc = "extracted" /\ ~IsGiven(file_name)) =>
        LET found == ResolvingFiles
        IN  /\ Len(found) = 0 => result = Return(NoText)
            /\ Len(found) = 1 => result = TextFrom(found[1])
            /\ ( /\ Len(found) >= 2
                 /\ \/ line_number = NoLine
                    \/ \A k \in 1..Len(found) :
                           ~VerifyLineNumber(found[k].file.text, Name, line_number) )
                   => result = TextFrom(found[1])

\* two files define f at line 1 and the line number 5 is given: no file has a
\* hit near line 5 and the first file's text is returned
C13_Witness ==
    /\ pc = "extracted"
    /\ file_name = NoFileName
    /\ line_number = 5
    /\ dirs = << <<[name |-> NameA, text |-> Definition, readable |-> TRUE]>>,
                 <<[name |-> NameB, text |-> DefinitionB, readable |-> TRUE]>> >>
    /\ result = Return(Definition)

\* the first directory of the traversal that holds a file of that name
FirstDirWith(tr, name) ==
    CHOOSE d \in 1..Len(tr) :
        HoldsFile(tr[d], name) /\ \A k \in 1..(d - 1) : ~HoldsFile(tr[k], name)

\* C15: extract_function with a file name searches only the first file of
\* that name met in the traversal of the source root, at any depth: the result
\* is what that file alone gives (its function text, the absent value, or the
\* error of reading it), whatever the later files of the same name hold.
C15_FirstFileOfThatName ==
    (pc = "extracted" /\ IsGiven(file_name) /\ ExistsUnderRoot(dirs, file_name)) =>
        LET f == FileNamed(dirs[FirstDirWith(dirs, file_name)], file_name)
        IN  result = IF f.readable
                     THEN Return(ParseFunction(f.text, Name, line_number, remove_comments))
                     ELSE Raise("PermissionError")

\* a.c only calls f in the source root and defines it in a subdirectory: the
\* absent value is returned
C15_Witness ==
    /\ pc = "extracted"
    /\ file_name = NameA
    /\ dirs = << <<[name |-> NameA, text |-> CallStatement, readable |-> TRUE]>>,
                 <<[name |-> NameA, text |-> Definition, readable |-> TRUE]>> >>
    /\ result = Return(NoText)

\* C16: list_all_functions with a file name lists the functions of the file
\* that extract_function resolves for that name, the first file of that name
\* under the source root, also when it is in a subdirectory.
C16_ListsTheResolvedFile ==
    (pc = "listed" /\ IsGiven(file_name) /\ ExistsUnderRoot(dirs, file_name)) =>
        LET d == FirstDirWith(dirs, file_name)
            f == FileNamed(dirs[d], file_name)
        IN  f.readable =>
                result = Return(EntriesOfFile(<<d, file_name>>, f.text, remove_comments))

\* C18: no caller operation changes the extractor (source root, extension
\* set) or a file of the tree: every call leaves both as they were, so after
\* any sequence of calls the result of the last call is the result of that
\* operation on its arguments and the tree, whatever the calls before it.
C18_CallsChangeNothing ==
    [][ /\ dirs' = dirs
        /\ self' = self
        /\ pc' = "extracted" =>
               result' = ExtractFunction(dirs', self', Name, file_name',
                                         line_number', remove_comments')
        /\ pc' = "listed" =>
               result' = ListAllFunctions(dirs', self', file_name', remove_comments')
        /\ pc' = "located" =>
               result' = FindLocationsUnderRoot(dirs', self', Name) ]_vars

\* a second call: the listing of b.C after another call
C18_Witness ==
    /\ calls = 2
    /\ pc = "listed"
    /\ file_name = NameB
    /\ result = Return(<< <<<<"f">>, <<"f", "(", ")">>, <<1, NameB>>>> >>)

----------------------------------------------------------------------------
(* Claims on the algebra of the Comment Stripper *)

\* C27: comment stripping is idempotent: for every input text, stripping the
\* stripped text returns it unchanged.
C27_StripIsIdempotent ==
    pc = "stripped" => RemoveComments(result) = result

\* a line comment before a brace: the comment is removed by the first pass
\* and the second pass finds nothing to remove
C27_Witness ==
    /\ pc = "stripped"
    /\ content = <<"/", "/", "{", NL, "}">>
    /\ result = <<NL, NL, "}">>
    /\ RemoveComments(result) = result

----------------------------------------------------------------------------
(* Claims on escapes and quotes inside literals *)

\* the loop state of the Comment Stripper when it stands at index p of text;
\* when the loop never stands at p, the state in which it has passed p
RECURSIVE RemoveCommentsStateAt(_, _, _)
RemoveCommentsStateAt(text, st, p) ==
    IF st.i < p /\ st.i <= Len(text)
    THEN RemoveCommentsStateAt(text, RemoveCommentsStep(text, st), p)
    ELSE st

\* the places where a scanner, in state st, stands inside a literal on a
\* backslash that has a character after it
AtEscapePair(text, st, p) ==
    /\ st.i = p
    /\ p + 1 <= Len(text)
    /\ text[p] = BS
    /\ (st.in_string \/ st.in_char)

\* C23: inside a literal, in both scanners, a backslash and the character
\* after it are consumed together: the scanner goes on two characters further
\* in the same literal, whatever the second character is (a quote, a second
\* backslash, the start of a comment marker), and the stripper copies both.
C23_EscapePairConsumed ==
    /\ pc = "stripped" =>
          /\ \A p \in 1..Len(content) :
                 LET st == RemoveCommentsStateAt(content, RemoveCommentsInit, p)
                 IN  AtEscapePair(content, st, p) =>
                         RemoveCommentsStep(content, st) =
                             [st EXCEPT !.i = p + 2,
                                        !.result = @ \o <<BS, content[p + 1]>>]
          /\ result = RemoveCommentsLoop(content, RemoveCommentsInit)
    /\ pc = "counted" =>
          /\ \A p \in 1..Len(content) :
                 LET st == CountBracesStateAt(content, CountBracesInit, p)
                 IN  (AtEscapePair(content, st, p) /\ ~st.broke) =>
                         CountBracesStep(content, st) = [st EXCEPT !.i = p + 2]
          /\ result = CountBracesLoop(content, CountBracesInit)

\* "\"{" : the escaped quote does not close the string and the brace is not
\* counted
C23_Witness ==
    /\ pc = "counted"
    /\ content = <<DQ, BS, DQ, "{", DQ>>
    /\ result = 0

\* the scanner state st is inside a string or character literal
InsideLiteral(st) == st.in_string \/ st.in_char

\* C24: in both scanners a literal is closed only by the quote character that
\* opened it: inside a literal every character other than the opening quote
\* (and other than a backslash) leaves the scanner inside the same literal, the
\* opening quote closes it, and outside literals a quote opens a literal of
\* that quote, so that "" and '' are opened and closed.
C24_ClosedByOwnQuote ==
    /\ pc = "stripped" =>
          \A p \in 1..Len(content) :
              LET st == RemoveCommentsStateAt(content, RemoveCommentsInit, p)
                  nx == RemoveCommentsStep(content, st)
              IN  (st.i = p /\ InsideLiteral(st) /\ content[p] # BS) =>
                      /\ st.string_char \in {DQ, SQ}
                      /\ IF content[p] = st.string_char
                         THEN ~InsideLiteral(nx)
                         ELSE /\ InsideLiteral(nx)
                              /\ nx.string_char = st.string_char
                      /\ nx.i = p + 1
                      /\ nx.result = st.result \o <<content[p]>>
    /\ pc = "counted" =>
          \A p \in 1..Len(content) :
              LET st == CountBracesStateAt(content, CountBracesInit, p)
                  nx == CountBracesStep(content, st)
              IN  (st.i = p /\ ~st.broke /\ InsideLiteral(st) /\ content[p] # BS) =>
                      /\ st.string_char \in {DQ, SQ}
                      /\ IF content[p] = st.string_char
                         THEN ~InsideLiteral(nx)
                         ELSE /\ InsideLiteral(nx)
                              /\ nx.string_char = st.string_char
                      /\ nx.i = p + 1
                      /\ nx.count = st.count
    /\ pc = "counted" /\ (\A p \in 1..Len(content) : content[p] # "/") =>
          result = PlainBraces(content)
    /\ pc = "stripped" /\ (\A p \in 1..Len(content) : content[p] \notin {"/"}) =>
          result = content

\* "'{" followed by } : the single quote inside the string does not close it,
\* so the '{' stays inside the literal and only the '}' is counted
C24_Witness ==
    /\ pc = "counted"
    /\ content = <<DQ, SQ, "{", DQ, "}">>
    /\ result = -1

----------------------------------------------------------------------------
(* Claims on _parse_function *)

\* the lines of a file that the Boundary Detector accepts for f
Accepted(lines) == {i \in 1..Len(lines) : IsFunctionDeclaration(lines, i, Name)}

\* C25: within one file _parse_function starts the extraction at an accepted
\* line: with a line number L the accepted line closest to L, the earlier one
\* on a tie, however far it is; without a line number the first accepted
\* line; it returns the absent value exactly when no line is accepted.
C25_ClosestAcceptedLine ==
    pc = "parsed" =>
        LET lines == ParsedLines(content, remove_comments)
            acc   == Accepted(lines)
        IN  /\ result = NoText <=> acc = {}
            /\ acc = {} => start_idx = 0
            /\ acc # {} =>
                  /\ start_idx \in acc
                  /\ result = ExtractCompleteFunction(lines, start_idx, Name)
                  /\ line_number = NoLine =>
                         \A j \in acc : start_idx <= j
                  /\ line_number # NoLine =>
                         \A j \in acc :
                             \/ Abs(start_idx - line_number) < Abs(j - line_number)
                             \/ /\ Abs(start_idx - line_number) = Abs(j - line_number)
                                /\ start_idx <= j

\* lines 1 and 3 are accepted and equally far from line 2: line 1 is chosen
C25_Witness ==
    /\ pc = "parsed"
    /\ content = Join(<<OneLiner, LineComment, ReturnType, DefinitionB>>)
    /\ Accepted(Split(content)) = {1, 3, 4}
    /\ ~remove_comments
    /\ line_number = 2
    /\ start_idx = 1
    /\ result = OneLiner

\* the last line of an extracted text; in the files of SpecParse every
\* definition is one line without a comment, so this is the line that holds
\* the name and the parameter list of the selected definition
DefinitionLine(text) == LET lines == Split(text) IN lines[Len(lines)]

\* C21: line numbers stay valid after comment stripping: for every file whose
\* comments do not hold the function name and every line number L,
\* _parse_function with stripping selects the same definition as without.
C21_SameDefinitionWhenStripped ==
    (pc = "parsed" /\ remove_comments) =>
        DefinitionLine(result) =
            DefinitionLine(ParseFunction(content, Name, line_number, FALSE))

\* C22: for a definition whose return type is on line N and whose name and
\* parameter list are on line N+1, the Boundary Detector accepts line N and
\* does not also accept line N+1.
C22_OneStartForSplitSignature ==
    pc = "detected" =>
        LET lines == Split(content)
        IN  \A n \in 1..(Len(lines) - 1) :
                (lines[n] = ReturnType /\ lines[n + 1] \in {OneLiner, DefinitionB}) =>
                    (result[n] /\ ~result[n + 1])

----------------------------------------------------------------------------
(* Claims on _process_trace_json *)

\* the (name, srcline) pairs of the begin events of a trace
BeginPairs(events) ==
    {<<events[i].name, events[i].srcline>> :
        i \in {j \in 1..Len(events) : events[j].ph = "B"}}

\* the place of the first begin event of a pair in a trace
FirstBegin(events, pair) ==
    CHOOSE i \in 1..Len(events) :
        /\ events[i].ph = "B"
        /\ <<events[i].name, events[i].srcline>> = pair
        /\ \A j \in 1..(i - 1) :
               ~(events[j].ph = "B" /\ <<events[j].name, events[j].srcline>> = pair)

\* funcs holds one record per begin pair of the trace, in order of first
\* occurrence
OneRecordPerBeginPair(events, funcs) ==
    LET pair(k) == <<funcs[k].name, funcs[k].srcline>>
    IN  /\ \A k \in 1..Len(funcs) : DOMAIN funcs[k] = {"name", "srcline"}
        /\ {pair(k) : k \in 1..Len(funcs)} = BeginPairs(events)
        /\ \A k, l \in 1..Len(funcs) : k < l => pair(k) # pair(l)
        /\ \A k, l \in 1..Len(funcs) :
               k < l => FirstBegin(events, pair(k)) < FirstBegin(events, pair(l))

\* C26: _process_trace_json returns one record per distinct (name, srcline)
\* pair of the begin events of the trace, in order of first occurrence: no
\* pair twice, every pair of a begin event, nothing for any other phase.
C26_OneRecordPerBeginPair ==
    [][(pc' = "processed" /\ input_file.kind = "object" /\ input_file.has_events) =>
          /\ result'.raised = None
          /\ OneRecordPerBeginPair(input_file.events, result'.value)]_vars

\* the trace B f, E f, B f: one record for f, none for the end event
C26_Witness ==
    /\ pc = "processed"
    /\ calls = 1
    /\ input_file.kind = "array"
    /\ Len(input_file.events) = 3
    /\ input_file.events[1].ph = "B"
    /\ input_file.events[2].ph = "E"
    /\ input_file.events[3].ph = "B"
    /\ input_file.events[3].name = input_file.events[1].name
    /\ input_file.events[3].srcline = input_file.events[1].srcline
    /\ result.raised = None
    /\ Len(result.value) = 1

\* C28: _process_trace_json can be applied again to a trace file it has
\* already processed: the second call on the same path succeeds and returns
\* the same function list as the first call.
C28_SecondCallSameList ==
    [][(pc = "processed" /\ calls = 1 /\ result.raised = None /\ calls' = 2) =>
          result' = result]_vars

====
